---- MODULE Spec2Model ----
\* A model of the DS3231 real time clock driver (DS3231.hpp / DS3231.cpp):
\* the chip's register file, the register-addressed bus the driver talks
\* through, and one action per public operation of the driver.

EXTENDS Integers, Sequences, FiniteSets, TLC

VARIABLES
    yearBase,   \* DS3231::_yearBase, fixed at construction
    regs,       \* the chip's registers 0x00..0x12, one byte each
    pre,        \* the registers as they were when the last call started
    call,       \* the last call: operation, arguments, bus log, result
    prev,       \* the call before the last one
    input       \* the date/time and alarm mode the caller passes

vars == <<yearBase, regs, pre, call, prev, input>>

\* ------------------------------------------------------------------ bounds

\* Year bases 2000, 1970, ... (one per index) the driver is constructed with.
MaxYearBaseIdx == 2

\* How many years outside the window [yearBase, yearBase+200) are tried on
\* each side.
YearMargin == 2

\* ---------------------------------------------------------- bytes and bits

Byte == 0..255

RECURSIVE BitAndN(_, _, _)
BitAndN(a, b, n) ==
    IF n = 0 THEN 0
    ELSE (a % 2) * (b % 2) + 2 * BitAndN(a \div 2, b \div 2, n - 1)

\* a & b on 8-bit values
And8(a, b) == BitAndN(a, b, 8)

\* a | b on 8-bit values
Or8(a, b) == a + b - And8(a, b)

\* a & ~mask on 8-bit values
Clear8(a, mask) == a - And8(a, mask)

\* bit i of v
BitAt(v, i) == (v \div (2 ^ i)) % 2

\* a signed 8-bit read of a byte (int8_t)
AsInt8(b) == IF b >= 128 THEN b - 256 ELSE b

\* ------------------------------------------------------------- BCD helpers

\* BCD::convertBinToBcd, result truncated to uint8_t
convertBinToBcd(bin) == ((bin % 10) + ((bin \div 10) * 16)) % 256

\* BCD::convertBcdToBin
convertBcdToBin(bcd) == (bcd % 16) + ((bcd \div 16) * 10)

\* ---------------------------------------------------------------- registers

RegSeconds == 0
RegDayOfWeek == 3
RegMonthCentury == 5
RegAlarm1Seconds == 7
RegAlarm1DayDate == 10
RegAlarm2Minutes == 11
RegAlarm2DayDate == 13
RegControl == 14
RegStatus == 15
RegTemperatureHigh == 17
RegTemperatureLow == 18
RegisterCount == 19

Registers == 0..(RegisterCount - 1)

\* ControlFlag
A1IE == 1
A2IE == 2
INTCN == 4
EOSC == 128

\* StatusFlag
A1F == 1
A2F == 2
OSF == 128

\* sizeof of the three register blocks
SizeofDateTimeRegister == 7
SizeofAlarmRegister == 4
SizeofTemperatureRegister == 2

\* ---------------------------------------------------------------- the bus

\* One bus transaction as the log keeps it.
Transaction(fn, reg, len, ok) == [fn |-> fn, reg |-> reg, len |-> len, ok |-> ok]

\* WireMasterRegisterChip::readRegisterData: len bytes starting at reg
readRegisterData(r, reg, len) == [i \in 1..len |-> r[reg + i - 1]]

\* WireMasterRegisterChip::writeRegisterData: the registers after len bytes
\* of data were written starting at reg
writeRegisterData(r, reg, data, len) ==
    [a \in Registers |-> IF a >= reg /\ a < reg + len THEN data[a - reg + 1] ELSE r[a]]

\* WireMasterRegisterChip::testBits: BitResult::Set (TRUE) or Zero (FALSE)
testBits(r, reg, mask) == And8(r[reg], mask) # 0

\* WireMasterRegisterChip::changeBits with BitOperation::Clear
changeBitsClear(r, reg, mask) == [r EXCEPT ![reg] = Clear8(r[reg], mask)]

\* WireMasterRegisterChip::writeBits: the masked field takes the value's bits
writeBits(r, reg, mask, value) ==
    [r EXCEPT ![reg] = Or8(Clear8(r[reg], mask), And8(value, mask))]

\* ------------------------------------------------------------ date and time

\* DateTime::fromUncheckedValues
DateTimeOf(year, month, day, hour, minute, second, dayOfWeek) ==
    [year |-> year, month |-> month, day |-> day, hour |-> hour,
     minute |-> minute, second |-> second, dayOfWeek |-> dayOfWeek]

\* ------------------------------------------------------------ call records

Success == "Success"
Error == "Error"

NoCall ==
    [op |-> "none", dt |-> <<>>, mode |-> "", status |-> "None", log |-> <<>>,
     dateTime |-> <<>>, flag |-> <<>>, temperature |-> <<>>]

\* A call with its arguments (dt: <<>> or <<dateTime>>, mode: "" or a name),
\* its status and bus log; the out parameters start unassigned (<<>>).
Call(op, dt, mode, status, log) ==
    [op |-> op, dt |-> dt, mode |-> mode, status |-> status, log |-> log,
     dateTime |-> <<>>, flag |-> <<>>, temperature |-> <<>>]

\* DS3231::statusFromBus
statusFromBus(ok) == IF ok THEN Success ELSE Error

\* Starts a new call: the registers are remembered and the last call
\* becomes the previous one.
Begin == pre' = regs /\ prev' = call /\ UNCHANGED <<yearBase, input>>

\* ------------------------------------------------- getDateTime, setDateTime

\* The year offset getDateTime adds for the month register's century bit.
CenturyBase(month) == IF And8(month, 128) # 0 THEN yearBase + 100 ELSE yearBase

\* The conversion of getDateTime: the seven registers to a DateTime.
\* data[1..7] = seconds, minutes, hours, dayOfWeek, day, month, year.
DecodeDateTime(data) ==
    DateTimeOf(
        (convertBcdToBin(data[7]) + CenturyBase(data[6])) % 65536,
        convertBcdToBin(And8(data[6], 31)),
        convertBcdToBin(And8(data[5], 63)),
        convertBcdToBin(And8(data[3], 63)),
        convertBcdToBin(And8(data[2], 127)),
        convertBcdToBin(And8(data[1], 127)),
        And8(data[4], 7))

getDateTime ==
    /\ Begin
    /\ regs' = regs
    /\ \E ok \in BOOLEAN :
         LET log == <<Transaction("readRegisterData", RegSeconds, SizeofDateTimeRegister, ok)>>
             data == readRegisterData(regs, RegSeconds, SizeofDateTimeRegister)
         IN  call' = IF ok
                     THEN [Call("getDateTime", <<>>, "", Success, log)
                              EXCEPT !.dateTime = <<DecodeDateTime(data)>>]
                     ELSE Call("getDateTime", <<>>, "", Error, log)

\* The year check with its upper boundary off by one.
YearOutOfRange_UpperOffByOne(newYear) == newYear < yearBase \/ newYear > yearBase + 200

\* The basic year check of setDateTime: TRUE when the year is rejected.
YearOutOfRange(newYear) == newYear < yearBase \/ newYear >= yearBase + 200

\* The century bit setDateTime puts into the month register.
CenturyBit(year) == IF year >= yearBase + 100 THEN 128 ELSE 0

\* The register image setDateTime prepares.
EncodeDateTime(dt) ==
    << convertBinToBcd(dt.second),
       convertBinToBcd(dt.minute),
       convertBinToBcd(dt.hour),
       dt.dayOfWeek,
       convertBinToBcd(dt.day),
       Or8(convertBinToBcd(dt.month), CenturyBit(dt.year)),
       convertBinToBcd(dt.year % 100) >>

setDateTime(dt) ==
    /\ Begin
    /\ IF YearOutOfRange(dt.year)
       THEN /\ regs' = regs
            /\ call' = Call("setDateTime", <<dt>>, "", Error, <<>>)
       ELSE \E ok \in BOOLEAN :
            LET log == <<Transaction("writeRegisterData", RegSeconds, SizeofDateTimeRegister, ok)>>
            IN  /\ regs' = IF ok
                           THEN writeRegisterData(regs, RegSeconds, EncodeDateTime(dt),
                                                  SizeofDateTimeRegister)
                           ELSE regs
                /\ call' = Call("setDateTime", <<dt>>, "", statusFromBus(ok), log)

\* ------------------------------------------------------------ initial chip

\* The register file of a chip whose clock was never set: 00:00:00 on day 1
\* of month 1 of year 00, no alarm, and the given control, status and
\* temperature bytes.
ChipImage(control, status, high, low) ==
    [a \in Registers |->
        CASE a = RegDayOfWeek -> 1
          [] a = 4 -> 1
          [] a = RegMonthCentury -> 1
          [] a = RegControl -> control
          [] a = RegStatus -> status
          [] a = RegTemperatureHigh -> high
          [] a = RegTemperatureLow -> low
          [] OTHER -> 0]

\* The year bases the driver is constructed with: 2000 (the default), 1970, ...
YearBases == {2000 - 30 * i : i \in 0..MaxYearBaseIdx}

\* The date/times the caller passes for a year base: every year of the
\* window and YearMargin years on each side with every month, and every
\* value of each other field.
BaseDateTime(yb) == DateTimeOf(yb + 150, 12, 31, 23, 59, 59, 6)

DateTimes(yb) ==
       {[BaseDateTime(yb) EXCEPT !.year = y, !.month = m] :
            y \in (yb - YearMargin)..(yb + 199 + YearMargin), m \in {1, 9, 10, 12}}
    \cup {[BaseDateTime(yb) EXCEPT !.month = m] : m \in 1..12}
    \cup {[BaseDateTime(yb) EXCEPT !.day = d] : d \in 1..31}
    \cup {[BaseDateTime(yb) EXCEPT !.hour = h] : h \in 0..23}
    \cup {[BaseDateTime(yb) EXCEPT !.minute = mi, !.year = yb + 7] : mi \in 0..59}
    \cup {[BaseDateTime(yb) EXCEPT !.second = s, !.year = yb + 99] : s \in 0..59}
    \cup {[BaseDateTime(yb) EXCEPT !.dayOfWeek = w, !.year = yb + 100] : w \in 0..6}

\* ------------------------------------------- specification: date and time

InitDateTime ==
    /\ yearBase \in YearBases
    /\ regs = ChipImage(28, 136, 25, 64)
    /\ pre = regs
    /\ call = NoCall
    /\ prev = NoCall
    /\ \E dt \in DateTimes(yearBase) : input = [dt |-> dt, mode |-> "DateHoursMinutesSeconds"]

SetInputDateTime == setDateTime(input.dt)

NextDateTime == SetInputDateTime \/ getDateTime

SpecDateTime == InitDateTime /\ [][NextDateTime]_vars

\* C1: a successful setDateTime(dt) followed at once by a successful
\* getDateTime returns exactly dt, for every year base and every dt of the
\* window; and a year of yearBase+150 is written with the century bit
\* (bit 7 of the month register) set.
C1_RoundTrip ==
    /\ (/\ call.op = "getDateTime" /\ call.status = Success
        /\ prev.op = "setDateTime" /\ prev.status = Success)
           => call.dateTime = prev.dt
    /\ (/\ call.op = "setDateTime" /\ call.status = Success
        /\ call.dt[1].year = yearBase + 150)
           => BitAt(regs[RegMonthCentury], 7) = 1

\* C2: setDateTime with a year outside [yearBase, yearBase+200) returns
\* Error, issues no bus transaction and leaves the registers unchanged;
\* with a year inside it issues exactly one 7-byte write at register 0x00 and
\* returns Success when that write succeeds.
C2_YearWindow ==
    call.op = "setDateTime" =>
        LET year == call.dt[1].year IN
        /\ (year < yearBase \/ year >= yearBase + 200) =>
               /\ call.status = Error
               /\ call.log = <<>>
               /\ regs = pre
        /\ (yearBase <= year /\ year < yearBase + 200) =>
               /\ Len(call.log) = 1
               /\ call.log[1].fn = "writeRegisterData"
               /\ call.log[1].reg = 0
               /\ call.log[1].len = 7
               /\ (call.log[1].ok => call.status = Success)

\* C2 witness: setDateTime was called with the first year past the window
\* and rejected it without a bus transaction.
C2_Witness ==
    /\ call.op = "setDateTime"
    /\ call.dt[1].year = yearBase + 200
    /\ call.status = Error
    /\ call.log = <<>>

\* ---------------------------------------------------- setAlarm1, setAlarm2

\* enum class AlarmMode
AlarmMode ==
    [OncePerSecond |-> 15, SecondsMatch |-> 14, OncePerMinute |-> 14,
     MinutesSeconds |-> 12, HoursMinutesSeconds |-> 8,
     DateHoursMinutesSeconds |-> 0, DayHoursMinutesSeconds |-> 16]

AlarmModeNames == DOMAIN AlarmMode

\* 0x80 when the mode has the bit set, else 0x00
MaskBit(alarmMode, bit) == IF And8(alarmMode, bit) # 0 THEN 128 ELSE 0

\* The alarm day byte that always takes the day of the month.
AlarmDay_NeverDayOfWeek(alarmMode, dateTime) ==
    Or8(convertBinToBcd(dateTime.day), MaskBit(alarmMode, 8))

\* The day byte of fillAlarmRegister.
AlarmDay(alarmMode, dateTime) ==
    Or8(IF alarmMode = AlarmMode.DayHoursMinutesSeconds
        THEN Or8(convertBinToBcd((dateTime.dayOfWeek + 1) % 256), 64)
        ELSE convertBinToBcd(dateTime.day),
        MaskBit(alarmMode, 8))

\* DS3231::fillAlarmRegister: <<seconds, minutes, hours, day>>
fillAlarmRegister(alarmMode, dateTime) ==
    << Or8(convertBinToBcd(dateTime.second), MaskBit(alarmMode, 1)),
       Or8(convertBinToBcd(dateTime.minute), MaskBit(alarmMode, 2)),
       Or8(convertBinToBcd(dateTime.hour), MaskBit(alarmMode, 4)),
       AlarmDay(alarmMode, dateTime) >>

setAlarm1(mode, dt) ==
    /\ Begin
    /\ \E ok \in BOOLEAN :
         LET data == fillAlarmRegister(AlarmMode[mode], dt)
             log == <<Transaction("writeRegisterData", RegAlarm1Seconds, SizeofAlarmRegister, ok)>>
         IN  /\ regs' = IF ok
                        THEN writeRegisterData(regs, RegAlarm1Seconds, data, SizeofAlarmRegister)
                        ELSE regs
             /\ call' = Call("setAlarm1", <<dt>>, mode, statusFromBus(ok), log)

setAlarm2(mode, dt) ==
    /\ Begin
    /\ \E ok \in BOOLEAN :
         LET data == fillAlarmRegister(AlarmMode[mode], dt)
             log == <<Transaction("writeRegisterData", RegAlarm2Minutes,
                                  SizeofAlarmRegister - 1, ok)>>
         IN  /\ regs' = IF ok
                        THEN writeRegisterData(regs, RegAlarm2Minutes,
                                               SubSeq(data, 2, SizeofAlarmRegister),
                                               SizeofAlarmRegister - 1)
                        ELSE regs
             /\ call' = Call("setAlarm2", <<dt>>, mode, statusFromBus(ok), log)

\* ------------------------------------------------ specification: the alarms

\* The date/times passed to the alarms: every value of each field.
AlarmDateTimes ==
       {[BaseDateTime(2000) EXCEPT !.second = s] : s \in 0..59}
    \cup {[BaseDateTime(2000) EXCEPT !.minute = mi, !.second = 0] : mi \in 0..59}
    \cup {[BaseDateTime(2000) EXCEPT !.hour = h, !.minute = 30] : h \in 0..23}
    \cup {[BaseDateTime(2000) EXCEPT !.day = d, !.dayOfWeek = d % 7] : d \in 1..31}
    \cup {[BaseDateTime(2000) EXCEPT !.dayOfWeek = w, !.day = 17] : w \in 0..6}

InitAlarm ==
    /\ yearBase \in YearBases
    /\ regs = ChipImage(28, 136, 25, 64)
    /\ pre = regs
    /\ call = NoCall
    /\ prev = NoCall
    /\ \E dt \in AlarmDateTimes, mode \in AlarmModeNames : input = [dt |-> dt, mode |-> mode]

SetInputAlarm1 == setAlarm1(input.mode, input.dt)

SetInputAlarm2 == setAlarm2(input.mode, input.dt)

NextAlarm == SetInputAlarm1 \/ SetInputAlarm2

SpecAlarm == InitAlarm /\ [][NextAlarm]_vars

\* The alarm register image the claim describes, tested on the four bytes
\* <<seconds, minutes, hours, day>> (alarm 2 has no seconds byte).
AlarmImageOk(mode, dt, bytes, withSeconds) ==
    LET m == AlarmMode[mode]
        seconds == bytes[1]
        minutes == bytes[2]
        hours == bytes[3]
        day == bytes[4]
    IN  /\ withSeconds => /\ BitAt(seconds, 7) = BitAt(m, 0)
                          /\ seconds % 128 = convertBinToBcd(dt.second)
        /\ BitAt(minutes, 7) = BitAt(m, 1)
        /\ minutes % 128 = convertBinToBcd(dt.minute)
        /\ BitAt(hours, 7) = BitAt(m, 2)
        /\ hours % 128 = convertBinToBcd(dt.hour)
        /\ BitAt(day, 7) = BitAt(m, 3)
        /\ IF mode = "DayHoursMinutesSeconds"
           THEN BitAt(day, 6) = 1 /\ day % 64 = convertBinToBcd(dt.dayOfWeek + 1)
           ELSE BitAt(day, 6) = 0 /\ day % 64 = convertBinToBcd(dt.day)

\* C3: setAlarm1 writes 4 bytes at 0x07..0x0A and setAlarm2 the 3 bytes
\* minutes/hours/day at 0x0B..0x0D; bit 7 of seconds, minutes, hours and day
\* is bit 0, 1, 2 and 3 of the mode, the low bits are the BCD fields, and
\* the day byte is BCD(dayOfWeek+1) with bit 6 set for
\* DayHoursMinutesSeconds and BCD(day) with bit 6 clear for the other modes.
C3_AlarmImage ==
    /\ (call.op = "setAlarm1" /\ call.status = Success) =>
           /\ call.log = <<Transaction("writeRegisterData", 7, 4, TRUE)>>
           /\ AlarmImageOk(call.mode, call.dt[1],
                           <<regs[7], regs[8], regs[9], regs[10]>>, TRUE)
           /\ \A a \in Registers \ (7..10) : regs[a] = pre[a]
    /\ (call.op = "setAlarm2" /\ call.status = Success) =>
           /\ call.log = <<Transaction("writeRegisterData", 11, 3, TRUE)>>
           /\ AlarmImageOk(call.mode, call.dt[1],
                           <<0, regs[11], regs[12], regs[13]>>, FALSE)
           /\ \A a \in Registers \ (11..13) : regs[a] = pre[a]

\* C3 witness: alarm 1 was set for a day of the week after alarm 2 was set
\* and both were written.
C3_Witness ==
    /\ call.op = "setAlarm1" /\ call.status = Success
    /\ prev.op = "setAlarm2" /\ prev.status = Success
    /\ call.mode = "DayHoursMinutesSeconds"
    /\ call.dt[1].dayOfWeek = 3
    /\ regs[RegAlarm1DayDate] = 68
    /\ regs[RegAlarm2DayDate] = 68

\* ------------------------------------------- isRunning, enableOscillator

\* isRunning reading the control register even when OSF is set.
isRunningResult_NoShortCircuit(r, ok1, ok2) ==
    LET t1 == Transaction("testBits", RegStatus, 1, ok1)
        t2 == Transaction("testBits", RegControl, 1, ok2)
    IN  IF ~ok1
        THEN [status |-> Error, log |-> <<t1>>, flag |-> <<>>]
        ELSE IF ~ok2
        THEN [status |-> Error, log |-> <<t1, t2>>, flag |-> <<>>]
        ELSE [status |-> Success, log |-> <<t1, t2>>,
              flag |-> <<~testBits(r, RegStatus, OSF) /\ ~testBits(r, RegControl, EOSC)>>]

\* The body of isRunning on registers r, the first and second bus read
\* succeeding as ok1 and ok2 say: the status, the bus log and the value
\* assigned to isRunning (<<>> when it is not assigned).
isRunningResult(r, ok1, ok2) ==
    LET t1 == Transaction("testBits", RegStatus, 1, ok1)
        t2 == Transaction("testBits", RegControl, 1, ok2)
    IN  IF ~ok1
        THEN [status |-> Error, log |-> <<t1>>, flag |-> <<>>]
        ELSE IF testBits(r, RegStatus, OSF)
        THEN [status |-> Success, log |-> <<t1>>, flag |-> <<FALSE>>]
        ELSE IF ~ok2
        THEN [status |-> Error, log |-> <<t1, t2>>, flag |-> <<>>]
        ELSE [status |-> Success, log |-> <<t1, t2>>,
              flag |-> <<~testBits(r, RegControl, EOSC)>>]

isRunning ==
    /\ Begin
    /\ regs' = regs
    /\ \E ok1, ok2 \in BOOLEAN :
         LET res == isRunningResult(regs, ok1, ok2)
         IN  call' = [Call("isRunning", <<>>, "", res.status, res.log)
                         EXCEPT !.flag = res.flag]

\* enableOscillator clearing OSF even after the control write failed.
enableOscillatorResult_NoAbort(r, ok1, ok2) ==
    LET t1 == Transaction("changeBits", RegControl, 1, ok1)
        t2 == Transaction("changeBits", RegStatus, 1, ok2)
        r1 == IF ok1 THEN changeBitsClear(r, RegControl, EOSC) ELSE r
    IN  [status |-> statusFromBus(ok1 /\ ok2), log |-> <<t1, t2>>,
         regs |-> IF ok2 THEN changeBitsClear(r1, RegStatus, OSF) ELSE r1]

\* enableOscillator leaving the oscillator stop flag as it is.
enableOscillatorResult_KeepsOSF(r, ok1, ok2) ==
    LET t1 == Transaction("changeBits", RegControl, 1, ok1)
        t2 == Transaction("changeBits", RegStatus, 1, ok2)
    IN  IF ~ok1
        THEN [status |-> Error, log |-> <<t1>>, regs |-> r]
        ELSE [status |-> statusFromBus(ok2), log |-> <<t1, t2>>,
              regs |-> changeBitsClear(r, RegControl, EOSC)]

\* The body of enableOscillator on registers r, the first and second bus
\* write succeeding as ok1 and ok2 say: the status, the bus log and the
\* registers afterwards.
enableOscillatorResult(r, ok1, ok2) ==
    LET t1 == Transaction("changeBits", RegControl, 1, ok1)
        t2 == Transaction("changeBits", RegStatus, 1, ok2)
        r1 == changeBitsClear(r, RegControl, EOSC)
    IN  IF ~ok1
        THEN [status |-> Error, log |-> <<t1>>, regs |-> r]
        ELSE [status |-> statusFromBus(ok2), log |-> <<t1, t2>>,
              regs |-> IF ok2 THEN changeBitsClear(r1, RegStatus, OSF) ELSE r1]

enableOscillator ==
    /\ Begin
    /\ \E ok1, ok2 \in BOOLEAN :
         LET res == enableOscillatorResult(regs, ok1, ok2)
         IN  /\ regs' = res.regs
             /\ call' = Call("enableOscillator", <<>>, "", res.status, res.log)

\* ------------------------------------------------ isAlarm1Set, isAlarm2Set

\* isAlarmXSet returning the status of the clearing write.
isAlarmSetResult_PropagatesClear(r, alarmFlag, okTest, okClear) ==
    LET t1 == Transaction("testBits", RegStatus, 1, okTest)
        t2 == Transaction("changeBits", RegStatus, 1, okClear)
        isSet == testBits(r, RegStatus, alarmFlag)
    IN  IF ~okTest
        THEN [status |-> Error, log |-> <<t1>>, flag |-> <<>>, regs |-> r]
        ELSE IF isSet
        THEN [status |-> statusFromBus(okClear), log |-> <<t1, t2>>, flag |-> <<TRUE>>,
              regs |-> IF okClear THEN changeBitsClear(r, RegStatus, alarmFlag) ELSE r]
        ELSE [status |-> Success, log |-> <<t1>>, flag |-> <<FALSE>>, regs |-> r]

\* The body shared by isAlarm1Set (alarmFlag = A1F) and isAlarm2Set
\* (alarmFlag = A2F) on registers r, the flag test and the clearing write
\* succeeding as okTest and okClear say: the status, the bus log, the value
\* assigned to isSet (<<>> when it is not assigned) and the registers
\* afterwards.
isAlarmSetResult(r, alarmFlag, okTest, okClear) ==
    LET t1 == Transaction("testBits", RegStatus, 1, okTest)
        t2 == Transaction("changeBits", RegStatus, 1, okClear)
        isSet == testBits(r, RegStatus, alarmFlag)
    IN  IF ~okTest
        THEN [status |-> Error, log |-> <<t1>>, flag |-> <<>>, regs |-> r]
        ELSE IF isSet
        THEN [status |-> Success, log |-> <<t1, t2>>, flag |-> <<TRUE>>,
              regs |-> IF okClear THEN changeBitsClear(r, RegStatus, alarmFlag) ELSE r]
        ELSE [status |-> Success, log |-> <<t1>>, flag |-> <<FALSE>>, regs |-> r]

isAlarm1Set ==
    /\ Begin
    /\ \E okTest, okClear \in BOOLEAN :
         LET res == isAlarmSetResult(regs, A1F, okTest, okClear)
         IN  /\ regs' = res.regs
             /\ call' = [Call("isAlarm1Set", <<>>, "", res.status, res.log)
                             EXCEPT !.flag = res.flag]

isAlarm2Set ==
    /\ Begin
    /\ \E okTest, okClear \in BOOLEAN :
         LET res == isAlarmSetResult(regs, A2F, okTest, okClear)
         IN  /\ regs' = res.regs
             /\ call' = [Call("isAlarm2Set", <<>>, "", res.status, res.log)
                             EXCEPT !.flag = res.flag]

\* ----------------------------------------------------------- setIntPinMode

\* enum class IntPinMode
IntPinMode ==
    [Disabled |-> 0, Alarm1 |-> 5, Alarm2 |-> 5, Alarm12 |-> 5,
     SquareWave1Hz |-> 0, SquareWave1024Hz |-> 8, SquareWave4096Hz |-> 16,
     SquareWave8192Hz |-> 24]

IntPinModeNames == DOMAIN IntPinMode

\* The mask of the control register bits setIntPinMode writes.
IntPinMask == 31

setIntPinMode(mode) ==
    /\ Begin
    /\ \E ok \in BOOLEAN :
         LET log == <<Transaction("writeBits", RegControl, 1, ok)>>
         IN  /\ regs' = IF ok
                        THEN writeBits(regs, RegControl, IntPinMask, IntPinMode[mode])
                        ELSE regs
             /\ call' = Call("setIntPinMode", <<>>, mode, statusFromBus(ok), log)

\* ------------------------------------- specification: control and status

\* The bytes that have no bit set outside of mask.
BytesWithin(mask) == {b \in Byte : Clear8(b, mask) = 0}

\* The control registers a chip starts with: every combination of EOSC,
\* CONV, INTCN and A2IE.
ControlImages == BytesWithin(EOSC + 32 + INTCN + A2IE)

\* The status registers a chip starts with: every combination of OSF, A2F
\* and A1F.
StatusImages == BytesWithin(OSF + A2F + A1F)

InitFlags ==
    /\ yearBase = 2000
    /\ \E control \in ControlImages, status \in StatusImages :
          regs = ChipImage(control, status, 25, 64)
    /\ pre = regs
    /\ call = NoCall
    /\ prev = NoCall
    /\ input = [dt |-> BaseDateTime(yearBase), mode |-> "DateHoursMinutesSeconds"]

SetAnyIntPinMode == \E mode \in IntPinModeNames : setIntPinMode(mode)

NextFlags ==
    \/ isRunning
    \/ enableOscillator
    \/ isAlarm1Set
    \/ isAlarm2Set
    \/ SetAnyIntPinMode

SpecFlags == InitFlags /\ [][NextFlags]_vars

\* C4: after every isAlarm1Set (isAlarm2Set) that returned Success with
\* isSet = true the A1F (A2F) bit of the status register is clear, so that
\* the same operation called again at once returns isSet = false.
C4_ReadAndConsume ==
    /\ (call.op = "isAlarm1Set" /\ call.status = Success /\ call.flag = <<TRUE>>)
           => ~testBits(regs, RegStatus, A1F)
    /\ (call.op = "isAlarm2Set" /\ call.status = Success /\ call.flag = <<TRUE>>)
           => ~testBits(regs, RegStatus, A2F)
    /\ \A op \in {"isAlarm1Set", "isAlarm2Set"} :
          (/\ prev.op = op /\ prev.status = Success /\ prev.flag = <<TRUE>>
           /\ call.op = op /\ call.status = Success)
              => call.flag = <<FALSE>>

\* The alarm flag an operation tests.
AlarmFlagOf(op) == IF op = "isAlarm1Set" THEN A1F ELSE A2F

C6_IsRunningDecision ==
    (call.op = "isRunning" /\ Len(call.log) >= 1 /\ call.log[1].ok) =>
        /\ call.log[1].fn = "testBits" /\ call.log[1].reg = RegStatus
        /\ BitAt(pre[RegStatus], 7) = 1 =>
              /\ call.flag = <<FALSE>>
              /\ call.status = Success
              /\ Len(call.log) = 1
        /\ BitAt(pre[RegStatus], 7) = 0 =>
              /\ Len(call.log) = 2
              /\ call.log[2].fn = "testBits" /\ call.log[2].reg = RegControl
              /\ call.log[2].ok =>
                    /\ call.status = Success
                    /\ call.flag = <<BitAt(pre[RegControl], 7) = 0>>

\* C6 witness: isRunning found OSF set on a chip whose EOSC is clear and
\* reported false after a single read.
C6_Witness ==
    /\ call.op = "isRunning"
    /\ call.status = Success
    /\ call.flag = <<FALSE>>
    /\ Len(call.log) = 1
    /\ BitAt(regs[RegStatus], 7) = 1
    /\ BitAt(regs[RegControl], 7) = 0

\* C7: enableOscillator clears EOSC in the control register and then OSF
\* in the status register; a failed first write returns Error with no
\* second write and no register changed; a failed second write returns
\* Error; Success needs both writes. isRunning returns Error without a
\* second read when its first read fails, and Error when the second fails.
C7_AbortOnFirstFailure ==
    /\ call.op = "enableOscillator" =>
          /\ Len(call.log) >= 1
          /\ call.log[1].fn = "changeBits" /\ call.log[1].reg = RegControl
          /\ ~call.log[1].ok =>
                /\ call.status = Error
                /\ Len(call.log) = 1
                /\ regs = pre
          /\ call.log[1].ok =>
                /\ Len(call.log) = 2
                /\ call.log[2].fn = "changeBits" /\ call.log[2].reg = RegStatus
                /\ BitAt(regs[RegControl], 7) = 0
                /\ ~call.log[2].ok => call.status = Error
          /\ call.status = Success <=>
                (Len(call.log) = 2 /\ call.log[1].ok /\ call.log[2].ok)
          /\ call.status = Success =>
                regs = [pre EXCEPT ![RegControl] = pre[RegControl] % 128,
                                   ![RegStatus] = pre[RegStatus] % 128]
    /\ call.op = "isRunning" =>
          /\ Len(call.log) >= 1
          /\ ~call.log[1].ok => (call.status = Error /\ Len(call.log) = 1)
          /\ (Len(call.log) = 2 /\ ~call.log[2].ok) => call.status = Error

\* C7 witness: enableOscillator stopped after its first write failed, on a
\* chip with both EOSC and OSF set.
C7_Witness ==
    /\ call.op = "enableOscillator"
    /\ call.status = Error
    /\ Len(call.log) = 1
    /\ BitAt(regs[RegControl], 7) = 1
    /\ BitAt(regs[RegStatus], 7) = 1

\* C9: a successful setIntPinMode(mode) sets the low 5 bits of the control
\* register to the mode's selection and keeps bits 5..7; Alarm1 sets INTCN
\* and A1IE, Alarm2 sets INTCN and A2IE, Alarm12 sets INTCN, A1IE and A2IE.
C9_IntPinRouting ==
    (call.op = "setIntPinMode" /\ call.status = Success) =>
        LET control == regs[RegControl] IN
        /\ control % 32 = IntPinMode[call.mode]
        /\ control \div 32 = pre[RegControl] \div 32
        /\ call.mode = "Alarm1" =>
              And8(control, INTCN + A1IE) = INTCN + A1IE
        /\ call.mode = "Alarm2" =>
              And8(control, INTCN + A2IE) = INTCN + A2IE
        /\ call.mode = "Alarm12" =>
              And8(control, INTCN + A1IE + A2IE) = INTCN + A1IE + A2IE

\* C10: after enableOscillator returned Success an isRunning called at once
\* whose reads succeed reports true; after enableOscillator returned Error
\* because its second write failed EOSC is clear and OSF is as it was, and
\* an isRunning called at once reports false when OSF is set.
C10_OscillatorRecovery ==
    /\ (/\ prev.op = "enableOscillator" /\ prev.status = Success
        /\ call.op = "isRunning" /\ call.status = Success)
           => call.flag = <<TRUE>>
    /\ (/\ call.op = "enableOscillator" /\ call.status = Error
        /\ Len(call.log) = 2)
           => /\ BitAt(regs[RegControl], 7) = 0
              /\ BitAt(regs[RegStatus], 7) = BitAt(pre[RegStatus], 7)
    /\ (/\ prev.op = "enableOscillator" /\ prev.status = Error
        /\ Len(prev.log) = 2
        /\ call.op = "isRunning" /\ call.status = Success
        /\ BitAt(regs[RegStatus], 7) = 1)
           => call.flag = <<FALSE>>

\* C10 witness: isRunning reported true right after a successful
\* enableOscillator.
C10_Witness ==
    /\ prev.op = "enableOscillator" /\ prev.status = Success
    /\ call.op = "isRunning" /\ call.status = Success
    /\ call.flag = <<TRUE>>

\* ---------------------------------------------------------- getTemperature

\* The decode that adds the fraction whatever the sign.
TemperatureQuarters_AlwaysAdds(high, low) == 4 * AsInt8(high) + (low \div 64)

\* The conversion of getTemperature, in quarters of a degree (every value
\* the float takes is a multiple of 0.25 and exact): high is the int8_t
\* byte, low >> 6 the fraction, subtracted when the integer part is
\* negative.
TemperatureQuarters(high, low) ==
    LET result == AsInt8(high)
        fraction == low \div 64
    IN  IF result < 0 THEN 4 * result - fraction ELSE 4 * result + fraction

getTemperature ==
    /\ Begin
    /\ regs' = regs
    /\ \E ok \in BOOLEAN :
         LET log == <<Transaction("readRegisterData", RegTemperatureHigh,
                                  SizeofTemperatureRegister, ok)>>
             data == readRegisterData(regs, RegTemperatureHigh, SizeofTemperatureRegister)
         IN  call' = IF ok
                     THEN [Call("getTemperature", <<>>, "", Success, log)
                              EXCEPT !.temperature = <<TemperatureQuarters(data[1], data[2])>>]
                     ELSE Call("getTemperature", <<>>, "", Error, log)

\* ---------------------------------------- specification: the temperature

InitTemperature ==
    /\ yearBase = 2000
    /\ \E high \in Byte, low \in Byte : regs = ChipImage(28, 136, high, low)
    /\ pre = regs
    /\ call = NoCall
    /\ prev = NoCall
    /\ input = [dt |-> BaseDateTime(yearBase), mode |-> "DateHoursMinutesSeconds"]

NextTemperature == getTemperature

SpecTemperature == InitTemperature /\ [][NextTemperature]_vars

\* C8: for the signed high byte h and the low byte l a successful
\* getTemperature returns 4*h + (l >> 6) quarter degrees when h >= 0 and
\* 4*h - (l >> 6) when h < 0; (25, 0b01000000) is 25.25 and
\* (-3, 0b01000000) is -3.25; the low 6 bits of l have no influence.
C8_TemperatureDecode ==
    (call.op = "getTemperature" /\ call.status = Success) =>
        LET h == CHOOSE x \in -128..127 : (x - regs[RegTemperatureHigh]) % 256 = 0
            l == regs[RegTemperatureLow]
            top == CHOOSE t \in 0..3 : l \in (64 * t)..(64 * t + 63)
        IN  /\ h >= 0 => call.temperature = <<4 * h + top>>
            /\ h < 0 => call.temperature = <<4 * h - top>>
            /\ (h = 25 /\ l = 64) => call.temperature = <<101>>
            /\ (h = -3 /\ l = 64) => call.temperature = <<-13>>

\* C8 witness: high = -3 and low = 0b01111111 were read as -3.25.
C8_Witness ==
    /\ call.op = "getTemperature"
    /\ call.status = Success
    /\ regs[RegTemperatureHigh] = 253
    /\ regs[RegTemperatureLow] = 127
    /\ call.temperature = <<-13>>

\* --------------------------------- specification: the clock and its alarms

\* The date/times passed to both the clock and the alarms: every day of the
\* week on several days of the month, inside the year window.
ClockAlarmDateTimes(yb) ==
    {[BaseDateTime(yb) EXCEPT !.dayOfWeek = w, !.day = d, !.year = y] :
        w \in 0..6, d \in {1, 9, 17, 31}, y \in {yb, yb + 199}}

InitClockAlarm ==
    /\ yearBase \in YearBases
    /\ regs = ChipImage(28, 136, 25, 64)
    /\ pre = regs
    /\ call = NoCall
    /\ prev = NoCall
    /\ \E dt \in ClockAlarmDateTimes(yearBase), mode \in AlarmModeNames :
          input = [dt |-> dt, mode |-> mode]

NextClockAlarm == SetInputDateTime \/ SetInputAlarm1 \/ SetInputAlarm2

SpecClockAlarm == InitClockAlarm /\ [][NextClockAlarm]_vars

\* C11: the day-of-week number that setAlarm1/setAlarm2 with mode
\* DayHoursMinutesSeconds store in the low 4 bits of the alarm day register
\* equals the value setDateTime stores in the day-of-week register (0x03)
\* for the same dt, so the alarm compares equal on the day the clock was
\* set to.
C11_DayOfWeekConsistency ==
    \A alarm \in {"setAlarm1", "setAlarm2"} :
        (/\ {call.op, prev.op} = {"setDateTime", alarm}
         /\ call.status = Success /\ prev.status = Success
         /\ call.dt = prev.dt
         /\ (IF call.op = alarm THEN call.mode ELSE prev.mode) = "DayHoursMinutesSeconds")
            => LET alarmDay == IF alarm = "setAlarm1" THEN regs[RegAlarm1DayDate]
                               ELSE regs[RegAlarm2DayDate]
               IN  alarmDay % 16 = regs[RegDayOfWeek]

====
